---- MODULE Spec2Model ----
(***************************************************************************)
(* Paper-trader ledger: the POST /trades and GET /portfolio/summary        *)
(* handlers, ensureAccount, the valuation and the snapshot policy, with    *)
(* the Supabase tables they read and write.                                *)
(*                                                                         *)
(* Units.  Money is held in cents (cash_balance, price, avg_cost, notional,*)
(* net_worth).  Share counts are held in ticks of 0.0001 share (shares,    *)
(* quantity).  The request's raw quantity is given in 0.00001 share and    *)
(* the provider's quote.current in mills (0.001 dollar), one digit finer   *)
(* than the precision the handler rounds to, so roundShares and roundMoney *)
(* are real conversions.  Binary floating-point drift (the reason for      *)
(* Number.EPSILON in round) is outside the integer model.  Timestamps and  *)
(* the clock are whole minutes.                                            *)
(***************************************************************************)
EXTENDS Integers, Sequences, FiniteSets, TLC

VARIABLES
    accounts,   \* public.accounts rows            [id, user_id, cash_balance]
    positions,  \* public.positions rows           [id, user_id, symbol, shares, avg_cost]
    trades,     \* public.trades rows, in insertion order
    snapshots,  \* public.portfolio_snapshots rows, in insertion order
    nextId,     \* next gen_random_uuid() value for accounts/positions rows
    req,        \* per in-flight request: handler position and locals
    started,    \* number of requests started so far
    faults,     \* number of Ledger Store calls that returned an error so far
    errors,     \* number of requests that ended in next(err)
    now         \* the server clock, Date.now(), in minutes

vars == <<accounts, positions, trades, snapshots, nextId, req, started, faults, errors,
          now>>
db == <<accounts, positions, trades, snapshots>>

----------------------------------------------------------------------------
(* Bounds and inputs *)

MaxRequests == 2
MaxFaults == 1
\* last minute the clock reaches
MaxTime == 3
\* number of BUY requests in a run of buys
MaxBuys == 3

\* config.defaultCashBalance, here DEFAULT_CASH_BALANCE=10 (dollars)
defaultCashBalance == 10

\* config.snapshotEveryMinutes, here PORTFOLIO_SNAPSHOT_MINUTES=2
snapshotEveryMinutes == 2

Reqs == {"r1", "r2"}
Users == {"u1"}
Symbols == {"AAPL"}
Sides == {"BUY", "SELL"}
\* payload.quantity in 0.00001 share: 0.00004, 1 and 2 shares
Quantities == {4, 100000, 200000}
\* quote.current in mills: absent/0, 0.004 and 5.00 dollars
QuoteCurrents == {0, 4, 5000}

----------------------------------------------------------------------------
(* lib/finance *)

\* Math.round(n / d) for d > 0: floor(n/d + 1/2)
round(n, d) == (n \div d) + (IF 2 * (n % d) >= d THEN 1 ELSE 0)

\* roundMoney of the value n/d cents
roundMoney(n, d) == round(n, d)

\* roundShares of the value n/d ticks
roundShares(n, d) == round(n, d)

----------------------------------------------------------------------------
(* Tables *)

NoRow == [id |-> 0]

AccountRows(u) == {a \in accounts : a.user_id = u}

PositionRows(u, s) == {p \in positions : p.user_id = u /\ p.symbol = s}

\* variant: accounts without the unique (user_id) constraint
AccountNoUniqueConstraint(u) == FALSE

\* unique (user_id) on public.accounts
AccountUniqueViolation(u) == AccountRows(u) # {}

\* unique (user_id, symbol) on public.positions
PositionUniqueViolation(u, s) == PositionRows(u, s) # {}

\* check (shares >= 0), check (avg_cost >= 0) on public.positions
PositionCheck(shares, avg_cost) == shares >= 0 /\ avg_cost >= 0

\* check (quantity > 0), check (price > 0) on public.trades
TradeCheck(quantity, price) == quantity > 0 /\ price > 0

\* .maybeSingle() on accounts by user_id
getAccount(u) ==
    IF AccountRows(u) = {} THEN NoRow ELSE CHOOSE a \in AccountRows(u) : TRUE

\* .maybeSingle() on positions by (user_id, symbol)
selectPosition(u, s) ==
    IF PositionRows(u, s) = {} THEN NoRow ELSE CHOOSE p \in PositionRows(u, s) : TRUE

----------------------------------------------------------------------------
(* Request state *)

Idle ==
    [pc |-> "idle", resp |-> "", err |-> "", user |-> "", symbol |-> "", side |-> "",
     payloadQuantity |-> 0, account |-> NoRow, quantity |-> 0, price |-> 0,
     notional |-> 0, existingPosition |-> NoRow, updatedCash |-> 0,
     updatedShares |-> 0, updatedAvgCost |-> 0, netWorth |-> 0, mutated |-> FALSE,
     at |-> "", route |-> "", quotesBySymbol |-> <<>>, holdingsValue |-> 0,
     latest |-> NoRow, holdings |-> {}, dailyChange |-> 0, range |-> "", from |-> <<>>]

\* the tables before any request
InitEmpty ==
    /\ accounts = {}
    /\ positions = {}
    /\ trades = <<>>
    /\ snapshots = <<>>
    /\ nextId = 1

\* the tables after u1's first request, BUY 1 AAPL at 5.00, ran alone to its 201
InitHolding ==
    /\ accounts = {[id |-> 1, user_id |-> "u1", cash_balance |-> 500]}
    /\ positions = {[id |-> 2, user_id |-> "u1", symbol |-> "AAPL",
                     shares |-> 10000, avg_cost |-> 500]}
    /\ trades = <<[user_id |-> "u1", symbol |-> "AAPL", side |-> "BUY",
                   quantity |-> 10000, price |-> 500]>>
    /\ snapshots = <<[user_id |-> "u1", net_worth |-> 1000, timestamp |-> 0]>>
    /\ nextId = 3

Init ==
    /\ InitEmpty \/ InitHolding
    /\ req = [r \in Reqs |-> Idle]
    /\ started = 0
    /\ faults = 0
    /\ errors = 0
    /\ now = 0

\* the handler returns: its locals go out of scope, the response stays
Respond(r, resp, err) ==
    [Idle EXCEPT !.pc = "done", !.resp = resp, !.err = err, !.user = req[r].user,
                 !.symbol = req[r].symbol, !.side = req[r].side,
                 !.mutated = req[r].mutated, !.at = req[r].pc]

\* res.status(400).json({ error })
Reject(r, why) == Respond(r, why, "")

\* next(err)
Throw(r, code) == Respond(r, "error", code)

----------------------------------------------------------------------------
(* POST /trades: schema.parse and the symbol test admit the request *)

Start(r) ==
    /\ req[r].pc \in {"idle", "done"}
    /\ started < MaxRequests
    /\ \E u \in Users, s \in Symbols, sd \in Sides, q \in Quantities :
          req' = [req EXCEPT ![r] =
                    [Idle EXCEPT !.pc = "getAccount", !.route = "trades", !.user = u,
                                 !.symbol = s, !.side = sd, !.payloadQuantity = q]]
    /\ started' = started + 1
    /\ UNCHANGED <<db, nextId, faults, errors, now>>

\* where the handler continues once ensureAccount has returned the account
AfterEnsureAccount(r) ==
    CASE req[r].route = "summary" -> "buildSummaryState"
      [] req[r].route = "holdings" -> "buildHoldingsState"
      [] req[r].route = "snapshots" -> "buildListState"
      [] OTHER -> "getQuote"

(* ensureAccount: getAccount, return it when present *)
GetAccount(r) ==
    /\ req[r].pc = "getAccount"
    /\ LET account == getAccount(req[r].user) IN
          req' = [req EXCEPT ![r] =
                    IF account # NoRow
                    THEN [@ EXCEPT !.pc = AfterEnsureAccount(r), !.account = account]
                    ELSE [@ EXCEPT !.pc = "insertAccount"]]
    /\ UNCHANGED <<db, nextId, started, faults, errors, now>>

(* ensureAccount: insert with the default balance; 23505 leads to a re-read *)
InsertAccount(r) ==
    /\ req[r].pc = "insertAccount"
    /\ IF AccountUniqueViolation(req[r].user)
       THEN /\ req' = [req EXCEPT ![r].pc = "refetchAccount"]
            /\ UNCHANGED <<accounts, nextId>>
       ELSE LET data == [id |-> nextId, user_id |-> req[r].user,
                         cash_balance |-> roundMoney(defaultCashBalance * 100, 1)] IN
            /\ accounts' = accounts \cup {data}
            /\ nextId' = nextId + 1
            /\ req' = [req EXCEPT ![r].pc = AfterEnsureAccount(r), ![r].account = data]
    /\ UNCHANGED <<positions, trades, snapshots, started, faults, errors, now>>

(* ensureAccount: after 23505, getAccount again; throw when still absent *)
RefetchAccount(r) ==
    /\ req[r].pc = "refetchAccount"
    /\ LET existing == getAccount(req[r].user) IN
          IF existing # NoRow
          THEN /\ req' = [req EXCEPT ![r].pc = AfterEnsureAccount(r), ![r].account = existing]
               /\ UNCHANGED errors
          ELSE /\ req' = [req EXCEPT ![r] = Throw(r, "23505")]
               /\ errors' = errors + 1
    /\ UNCHANGED <<db, nextId, started, faults, now>>

\* variant: a quote of 0 passes the test
QuoteUnavailableNegativeOnly(current) == current < 0

\* if (!quote || !quote.current || quote.current <= 0)
QuoteUnavailable(current) == current <= 0

\* if (quantity <= 0)
QuantityTooSmall(quantity) == quantity <= 0

\* the handler once getQuote returned current: the quote test, the roundings, the notional
Quoted(r, current) ==
    LET quantity == roundShares(req[r].payloadQuantity, 10)
        price == roundMoney(current, 10)
        notional == roundMoney(price * quantity, 10000)
    IN IF QuoteUnavailable(current)
       THEN Reject(r, "Quote unavailable for symbol.")
       ELSE IF QuantityTooSmall(quantity)
       THEN Reject(r, "Quantity too small.")
       ELSE [req[r] EXCEPT !.pc = "selectPosition", !.quantity = quantity,
                           !.price = price, !.notional = notional]

(* getQuote returns a quote of the provider *)
GetQuote(r) ==
    /\ req[r].pc = "getQuote"
    /\ \E current \in QuoteCurrents : req' = [req EXCEPT ![r] = Quoted(r, current)]
    /\ UNCHANGED <<db, nextId, started, faults, errors, now>>

\* cashBalance handed to buildPortfolioState after a trade
postTradeCash(side, cash_balance, notional) ==
    IF side = "BUY" THEN cash_balance - notional ELSE cash_balance + notional

\* variant: the cash test is dropped
InsufficientCashNever(cash_balance, notional) == FALSE

\* variant: the cash test also rejects a notional equal to the balance
InsufficientCashInclusive(cash_balance, notional) == cash_balance <= notional

\* if (account.cash_balance < notional)
InsufficientCash(cash_balance, notional) == cash_balance < notional

\* variant: only the missing position is tested
InsufficientSharesNoRowOnly(existingPosition, quantity) == existingPosition = NoRow

\* if (!existingPosition || existingShares < quantity)
InsufficientShares(existingPosition, quantity) ==
    existingPosition = NoRow \/ existingPosition.shares < quantity

\* roundMoney((x + y) / d), the sum taken on quotients and remainders (32-bit safe)
roundMoneySum(x, y, d) == (x \div d) + (y \div d) + roundMoney((x % d) + (y % d), d)

\* variant: the plain mean of the old average and the new price
avgCostUnweighted(existingShares, existingAvgCost, quantity, price, updatedShares) ==
    IF existingShares = 0 THEN price ELSE roundMoney(existingAvgCost + price, 2)

\* variant: the cost of the latest BUY replaces the average
avgCostLastPrice(existingShares, existingAvgCost, quantity, price, updatedShares) == price

\* variant: a BUY that finds no row records no cost
avgCostZeroOnInsert(existingShares, existingAvgCost, quantity, price, updatedShares) ==
    IF existingShares = 0 THEN 0
    ELSE roundMoneySum(existingShares * existingAvgCost, quantity * price, updatedShares)

\* updatedAvgCost of a BUY: the blended cost over the updated shares
blendedAvgCost(existingShares, existingAvgCost, quantity, price, updatedShares) ==
    roundMoneySum(existingShares * existingAvgCost, quantity * price, updatedShares)

\* the side's validation and the updated values, from the position just read
Validate(r, existingPosition) ==
    LET existingShares == IF existingPosition # NoRow THEN existingPosition.shares ELSE 0
        existingAvgCost == IF existingPosition # NoRow THEN existingPosition.avg_cost ELSE 0
        cash == req[r].account.cash_balance
        quantity == req[r].quantity
        price == req[r].price
        notional == req[r].notional
    IN IF req[r].side = "BUY"
       THEN IF InsufficientCash(cash, notional)
            THEN Reject(r, "Insufficient cash balance.")
            ELSE LET updatedShares == roundShares(existingShares + quantity, 1) IN
                 [req[r] EXCEPT !.pc = "updateCash",
                                !.existingPosition = existingPosition,
                                !.updatedCash = roundMoney(cash - notional, 1),
                                !.updatedShares = updatedShares,
                                !.updatedAvgCost =
                                    blendedAvgCost(existingShares, existingAvgCost,
                                                   quantity, price, updatedShares)]
       ELSE IF InsufficientShares(existingPosition, quantity)
            THEN Reject(r, "Insufficient shares to sell.")
            ELSE [req[r] EXCEPT !.pc = "updateCash",
                                !.existingPosition = existingPosition,
                                !.updatedCash = roundMoney(cash + notional, 1),
                                !.updatedShares = roundShares(existingShares - quantity, 1)]

\* variant: the cash update is issued before the validation
SelectPositionDebitFirst(r) ==
    /\ req[r].pc = "selectPosition"
    /\ LET after == Validate(r, selectPosition(req[r].user, req[r].symbol))
           cash == postTradeCash(req[r].side, req[r].account.cash_balance, req[r].notional)
       IN /\ accounts' = {IF a.user_id = req[r].user
                          THEN [a EXCEPT !.cash_balance = cash] ELSE a : a \in accounts}
          /\ req' = [req EXCEPT ![r] = [after EXCEPT !.mutated = accounts' # accounts]]
    /\ UNCHANGED <<positions, trades, snapshots, nextId, started, faults, errors, now>>

(* the position read, then the side's validation and the updated values *)
SelectPosition(r) ==
    /\ req[r].pc = "selectPosition"
    /\ req' = [req EXCEPT ![r] = Validate(r, selectPosition(req[r].user, req[r].symbol))]
    /\ UNCHANGED <<db, nextId, started, faults, errors, now>>

\* variant: the cash update without the user_id filter
UpdateCashAllUsers(r) ==
    /\ req[r].pc = "updateCash"
    /\ accounts' = {[a EXCEPT !.cash_balance = req[r].updatedCash] : a \in accounts}
    /\ req' = [req EXCEPT ![r].pc = "writePosition",
                          ![r].mutated = @ \/ accounts' # accounts]
    /\ UNCHANGED <<positions, trades, snapshots, nextId, started, faults, errors, now>>

(* accounts.update({ cash_balance: updatedCash }).eq('user_id', userId) *)
UpdateCash(r) ==
    /\ req[r].pc = "updateCash"
    /\ accounts' = {IF a.user_id = req[r].user
                    THEN [a EXCEPT !.cash_balance = req[r].updatedCash]
                    ELSE a : a \in accounts}
    /\ req' = [req EXCEPT ![r].pc = "writePosition",
                          ![r].mutated = @ \/ accounts' # accounts]
    /\ UNCHANGED <<positions, trades, snapshots, nextId, started, faults, errors, now>>

\* variant: the row is deleted only below zero
SellDeletesBelowZero(updatedShares) == updatedShares < 0

\* if (updatedShares <= 0) delete, else update
SellDeletes(updatedShares) == updatedShares <= 0

\* variant: the SELL update rewrites avg_cost as well
sellUpdateResetsAvgCost(p, updatedShares) ==
    [p EXCEPT !.shares = updatedShares, !.avg_cost = 0]

\* positions.update({ shares: updatedShares }) of a SELL, applied to the row
sellUpdate(p, updatedShares) == [p EXCEPT !.shares = updatedShares]

(* BUY: update by id or insert; SELL: delete by id or update shares by id *)
WritePosition(r) ==
    /\ req[r].pc = "writePosition"
    /\ LET id == req[r].existingPosition.id
           ok(ps) == /\ positions' = ps
                     /\ req' = [req EXCEPT ![r].pc = "insertTrade",
                                           ![r].mutated = @ \/ ps # positions]
                     /\ UNCHANGED errors
           fail(code) == /\ req' = [req EXCEPT ![r] = Throw(r, code)]
                         /\ errors' = errors + 1
                         /\ UNCHANGED positions
       IN IF req[r].side = "BUY"
          THEN IF ~PositionCheck(req[r].updatedShares, req[r].updatedAvgCost)
               THEN fail("23514") /\ UNCHANGED nextId
               ELSE IF req[r].existingPosition # NoRow
               THEN /\ ok({IF p.id = id
                           THEN [p EXCEPT !.shares = req[r].updatedShares,
                                          !.avg_cost = req[r].updatedAvgCost]
                           ELSE p : p \in positions})
                    /\ UNCHANGED nextId
               ELSE IF PositionUniqueViolation(req[r].user, req[r].symbol)
               THEN fail("23505") /\ UNCHANGED nextId
               ELSE /\ ok(positions \cup {[id |-> nextId, user_id |-> req[r].user,
                                           symbol |-> req[r].symbol,
                                           shares |-> req[r].updatedShares,
                                           avg_cost |-> req[r].updatedAvgCost]})
                    /\ nextId' = nextId + 1
          ELSE /\ UNCHANGED nextId
               /\ IF SellDeletes(req[r].updatedShares)
                  THEN ok({p \in positions : p.id # id})
                  ELSE IF ~PositionCheck(req[r].updatedShares, 0)
                  THEN fail("23514")
                  ELSE ok({IF p.id = id THEN sellUpdate(p, req[r].updatedShares)
                           ELSE p : p \in positions})
    /\ UNCHANGED <<accounts, trades, snapshots, started, faults, now>>

\* variant: the price column receives the notional
tradeRowNotionalAsPrice(user, symbol, side, quantity, price) ==
    [user_id |-> user, symbol |-> symbol, side |-> side, quantity |-> quantity,
     price |-> roundMoney(price * quantity, 10000)]

\* the row of trades.insert({ user_id, symbol, side, quantity, price })
tradeRow(user, symbol, side, quantity, price) ==
    [user_id |-> user, symbol |-> symbol, side |-> side, quantity |-> quantity,
     price |-> price]

(* trades.insert(...) *)
InsertTrade(r) ==
    /\ req[r].pc = "insertTrade"
    /\ IF TradeCheck(req[r].quantity, req[r].price)
       THEN /\ trades' = Append(trades, tradeRow(req[r].user, req[r].symbol, req[r].side,
                                                 req[r].quantity, req[r].price))
            /\ req' = [req EXCEPT ![r].pc = "buildPortfolioState", ![r].mutated = TRUE]
            /\ UNCHANGED errors
       ELSE /\ req' = [req EXCEPT ![r] = Throw(r, "23514")]
            /\ errors' = errors + 1
            /\ UNCHANGED trades
    /\ UNCHANGED <<accounts, positions, snapshots, nextId, started, faults, now>>

----------------------------------------------------------------------------
(* lib/portfolio and lib/portfolioService: valuation *)

\* getPositions(userId)
getPositions(u) == {p \in positions : p.user_id = u}

\* variant: the market value is cut to whole cents
marketValueTruncated(current, shares) == (current * shares) \div 100000

\* holding.marketValue = roundMoney(currentPrice * position.shares), mills * ticks to cents
marketValue(current, shares) == roundMoney(current * shares, 100000)

RECURSIVE holdingsValueOf(_, _)
\* holdings.reduce((sum, holding) => sum + holding.marketValue, 0)
holdingsValueOf(ps, quotesBySymbol) ==
    IF ps = {} THEN 0
    ELSE LET p == CHOOSE x \in ps : TRUE IN
         marketValue(quotesBySymbol[p.symbol], p.shares)
           + holdingsValueOf(ps \ {p}, quotesBySymbol)

\* calculateNetWorth(...).netWorth
calculateNetWorth(cashBalance, ps, quotesBySymbol) ==
    roundMoney(cashBalance + holdingsValueOf(ps, quotesBySymbol), 1)

(* buildPortfolioState: getPositions, getQuotes, holdings and summary *)
BuildPortfolioState(r) ==
    /\ req[r].pc = "buildPortfolioState"
    /\ LET ps == getPositions(req[r].user) IN
       \E quotesBySymbol \in [{p.symbol : p \in ps} -> QuoteCurrents] :
          req' = [req EXCEPT ![r].pc = "insertSnapshot",
                             ![r].netWorth =
                                 calculateNetWorth(
                                     postTradeCash(req[r].side, req[r].account.cash_balance,
                                                   req[r].notional),
                                     ps, quotesBySymbol)]
    /\ UNCHANGED <<db, nextId, started, faults, errors, now>>

\* the row of insertSnapshot(userId, netWorth, timestamp = new Date())
snapshotRow(user, netWorth, timestamp) ==
    [user_id |-> user, net_worth |-> roundMoney(netWorth, 1), timestamp |-> timestamp]

\* getLatestSnapshot(userId): order by timestamp descending, limit 1, maybeSingle()
getLatestSnapshot(u) ==
    LET own == {i \in 1..Len(snapshots) : snapshots[i].user_id = u} IN
    IF own = {} THEN NoRow
    ELSE snapshots[CHOOSE i \in own :
                      \A j \in own : snapshots[j].timestamp <= snapshots[i].timestamp]

\* variant: every call inserts
SnapshotDueAlways(latest, at) == TRUE

\* variant: a snapshot aged exactly the interval is still returned
SnapshotDueStrict(latest, at) ==
    IF latest = NoRow THEN TRUE ELSE at - latest.timestamp > snapshotEveryMinutes

\* maybeCreateSnapshot: if (!latest) insert; if (ageMinutes >= snapshotEveryMinutes) insert
SnapshotDue(latest, at) ==
    IF latest = NoRow THEN TRUE ELSE at - latest.timestamp >= snapshotEveryMinutes

\* variant: the trade handler goes through the throttle of maybeCreateSnapshot
InsertSnapshotThrottled(r) ==
    /\ req[r].pc = "insertSnapshot"
    /\ snapshots' = IF SnapshotDue(getLatestSnapshot(req[r].user), now)
                    THEN Append(snapshots, snapshotRow(req[r].user, req[r].netWorth, now))
                    ELSE snapshots
    /\ req' = [req EXCEPT ![r] = [Respond(r, "201", "") EXCEPT !.mutated = TRUE]]
    /\ UNCHANGED <<accounts, positions, trades, nextId, started, faults, errors, now>>

(* insertSnapshot(userId, summary.netWorth), then res.status(201) *)
InsertSnapshot(r) ==
    /\ req[r].pc = "insertSnapshot"
    /\ snapshots' = Append(snapshots, snapshotRow(req[r].user, req[r].netWorth, now))
    /\ req' = [req EXCEPT ![r] = [Respond(r, "201", "") EXCEPT !.mutated = TRUE]]
    /\ UNCHANGED <<accounts, positions, trades, nextId, started, faults, errors, now>>

----------------------------------------------------------------------------
(* GET /portfolio/summary *)

SummaryStart(r) ==
    /\ req[r].pc \in {"idle", "done"}
    /\ started < MaxRequests
    /\ \E u \in Users :
          req' = [req EXCEPT ![r] =
                    [Idle EXCEPT !.pc = "getAccount", !.route = "summary", !.user = u]]
    /\ started' = started + 1
    /\ UNCHANGED <<db, nextId, faults, errors, now>>

\* calculateNetWorth(...).holdingsValue
calculateHoldingsValue(ps, quotesBySymbol) ==
    roundMoney(holdingsValueOf(ps, quotesBySymbol), 1)

(* buildPortfolioState({ userId, cashBalance: account.cash_balance }) *)
BuildSummaryState(r) ==
    /\ req[r].pc = "buildSummaryState"
    /\ LET ps == getPositions(req[r].user) IN
       \E quotesBySymbol \in [{p.symbol : p \in ps} -> QuoteCurrents] :
          req' = [req EXCEPT ![r].pc = "getLatestSnapshot",
                             ![r].quotesBySymbol = quotesBySymbol,
                             ![r].holdingsValue =
                                 calculateHoldingsValue(ps, quotesBySymbol),
                             ![r].netWorth =
                                 calculateNetWorth(req[r].account.cash_balance, ps,
                                                   quotesBySymbol)]
    /\ UNCHANGED <<db, nextId, started, faults, errors, now>>

(* maybeCreateSnapshot: latest = await getLatestSnapshot(userId) *)
GetLatestSnapshot(r) ==
    /\ req[r].pc = "getLatestSnapshot"
    /\ req' = [req EXCEPT ![r].pc = "maybeCreateSnapshot",
                          ![r].latest = getLatestSnapshot(req[r].user)]
    /\ UNCHANGED <<db, nextId, started, faults, errors, now>>

(* maybeCreateSnapshot: the age test at Date.now(), insertSnapshot when due, res.json *)
MaybeCreateSnapshot(r) ==
    /\ req[r].pc = "maybeCreateSnapshot"
    /\ IF SnapshotDue(req[r].latest, now)
       THEN /\ snapshots' = Append(snapshots,
                                   snapshotRow(req[r].user, req[r].netWorth, now))
            /\ req' = [req EXCEPT ![r] = [Respond(r, "200", "") EXCEPT !.mutated = TRUE]]
       ELSE /\ snapshots' = snapshots
            /\ req' = [req EXCEPT ![r] = Respond(r, "200", "")]
    /\ UNCHANGED <<accounts, positions, trades, nextId, started, faults, errors, now>>

(* maybeCreateSnapshot: the insertSnapshot call returns { error } *)
SnapshotInsertFails(r) ==
    /\ req[r].pc = "maybeCreateSnapshot"
    /\ SnapshotDue(req[r].latest, now)
    /\ faults < MaxFaults
    /\ faults' = faults + 1
    /\ errors' = errors + 1
    /\ req' = [req EXCEPT ![r] = Throw(r, "store")]
    /\ UNCHANGED <<db, nextId, started, now>>

(* a minute passes *)
Tick ==
    /\ now < MaxTime
    /\ now' = now + 1
    /\ UNCHANGED <<db, nextId, req, started, faults, errors>>

----------------------------------------------------------------------------
(* Failures of awaited calls *)

\* handler positions that await a Supabase call
StoreSteps ==
    {"getAccount", "insertAccount", "refetchAccount", "selectPosition", "updateCash",
     "writePosition", "insertTrade", "buildPortfolioState", "insertSnapshot",
     "buildSummaryState", "getLatestSnapshot", "getSnapshots", "buildListState",
     "insertListSnapshot"}

\* handler positions that await the quote provider
QuoteSteps == {"getQuote", "buildPortfolioState", "buildSummaryState"}

(* a Supabase call returns { error }: the handler throws it *)
StoreFails(r) ==
    /\ req[r].pc \in StoreSteps
    /\ faults < MaxFaults
    /\ faults' = faults + 1
    /\ errors' = errors + 1
    /\ req' = [req EXCEPT ![r] = Throw(r, "store")]
    /\ UNCHANGED <<db, nextId, started, now>>

(* getQuote rejects (fetchJson throws on a non-ok response) *)
QuoteThrows(r) ==
    /\ req[r].pc \in QuoteSteps
    /\ errors' = errors + 1
    /\ req' = [req EXCEPT ![r] = Throw(r, "upstream")]
    /\ UNCHANGED <<db, nextId, started, faults, now>>

Next ==
    \E r \in Reqs :
        \/ Start(r)
        \/ GetAccount(r)
        \/ InsertAccount(r)
        \/ RefetchAccount(r)
        \/ GetQuote(r)
        \/ SelectPosition(r)
        \/ UpdateCash(r)
        \/ WritePosition(r)
        \/ InsertTrade(r)
        \/ BuildPortfolioState(r)
        \/ InsertSnapshot(r)
        \/ StoreFails(r)
        \/ QuoteThrows(r)

Spec == Init /\ [][Next]_vars

NextSummary ==
    \/ \E r \in Reqs :
          \/ SummaryStart(r)
          \/ GetAccount(r)
          \/ InsertAccount(r)
          \/ RefetchAccount(r)
          \/ BuildSummaryState(r)
          \/ GetLatestSnapshot(r)
          \/ MaybeCreateSnapshot(r)
          \/ SnapshotInsertFails(r)
          \/ StoreFails(r)
          \/ QuoteThrows(r)
    \/ Tick

\* summary requests in any interleaving while the clock advances
SummarySpec == Init /\ [][NextSummary]_vars

----------------------------------------------------------------------------
(* One user trading one symbol, one request at a time, from the shipped default *)
(* balance of 100000 dollars: BUY 10 at 150, BUY 5 at 180, SELL 5 at 200,       *)
(* SELL 10 at 210                                                              *)

Scenario ==
    <<[side |-> "BUY", payloadQuantity |-> 1000000, current |-> 150000],
      [side |-> "BUY", payloadQuantity |-> 500000, current |-> 180000],
      [side |-> "SELL", payloadQuantity |-> 500000, current |-> 200000],
      [side |-> "SELL", payloadQuantity |-> 1000000, current |-> 210000]>>

\* the user's account as ensureAccount created it with DEFAULT_CASH_BALANCE unset
InitScenario ==
    /\ accounts = {[id |-> 1, user_id |-> "u1", cash_balance |-> 10000000]}
    /\ positions = {}
    /\ trades = <<>>
    /\ snapshots = <<>>
    /\ nextId = 2
    /\ req = [r \in Reqs |-> Idle]
    /\ started = 0
    /\ faults = 0
    /\ errors = 0
    /\ now = 0

(* POST /trades with the next request of the scenario *)
ScenarioStart(r) ==
    /\ req[r].pc \in {"idle", "done"}
    /\ started < Len(Scenario)
    /\ req' = [req EXCEPT ![r] =
                 [Idle EXCEPT !.pc = "getAccount", !.route = "trades", !.user = "u1",
                              !.symbol = "AAPL",
                              !.side = Scenario[started + 1].side,
                              !.payloadQuantity = Scenario[started + 1].payloadQuantity]]
    /\ started' = started + 1
    /\ UNCHANGED <<db, nextId, faults, errors, now>>

(* getQuote returns the scenario's price for the request *)
ScenarioGetQuote(r) ==
    /\ req[r].pc = "getQuote"
    /\ req' = [req EXCEPT ![r] = Quoted(r, Scenario[started].current)]
    /\ UNCHANGED <<db, nextId, started, faults, errors, now>>

NextScenario ==
    \E r \in {"r1"} :
        \/ ScenarioStart(r)
        \/ GetAccount(r)
        \/ ScenarioGetQuote(r)
        \/ SelectPosition(r)
        \/ UpdateCash(r)
        \/ WritePosition(r)
        \/ InsertTrade(r)
        \/ BuildPortfolioState(r)
        \/ InsertSnapshot(r)

ScenarioSpec == InitScenario /\ [][NextScenario]_vars

----------------------------------------------------------------------------
(* One user buying one symbol, one request at a time *)

\* payload.quantity in 0.00001 share: 0.33333, 1 and 2.5 shares
BuyQuantities == {33333, 100000, 250000}
\* quote.current in mills: 3.335, 7.77 and 10.00 dollars
BuyQuotes == {3335, 7770, 10000}

\* the user's account holds 200.00 and nothing has been traded
InitBuys ==
    /\ accounts = {[id |-> 1, user_id |-> "u1", cash_balance |-> 20000]}
    /\ positions = {}
    /\ trades = <<>>
    /\ snapshots = <<>>
    /\ nextId = 2
    /\ req = [r \in Reqs |-> Idle]
    /\ started = 0
    /\ faults = 0
    /\ errors = 0
    /\ now = 0

(* POST /trades with side BUY *)
BuyStart(r) ==
    /\ req[r].pc \in {"idle", "done"}
    /\ started < MaxBuys
    /\ \E u \in Users, s \in Symbols, q \in BuyQuantities :
          req' = [req EXCEPT ![r] =
                    [Idle EXCEPT !.pc = "getAccount", !.route = "trades", !.user = u,
                                 !.symbol = s, !.side = "BUY", !.payloadQuantity = q]]
    /\ started' = started + 1
    /\ UNCHANGED <<db, nextId, faults, errors, now>>

(* getQuote returns a quote of the provider *)
BuyGetQuote(r) ==
    /\ req[r].pc = "getQuote"
    /\ \E current \in BuyQuotes : req' = [req EXCEPT ![r] = Quoted(r, current)]
    /\ UNCHANGED <<db, nextId, started, faults, errors, now>>

NextBuys ==
    \E r \in {"r1"} :
        \/ BuyStart(r)
        \/ GetAccount(r)
        \/ BuyGetQuote(r)
        \/ SelectPosition(r)
        \/ UpdateCash(r)
        \/ WritePosition(r)
        \/ InsertTrade(r)
        \/ BuildPortfolioState(r)
        \/ InsertSnapshot(r)

BuySpec == InitBuys /\ [][NextBuys]_vars

----------------------------------------------------------------------------
(* The valuation of a portfolio of up to two holdings by GET /portfolio/summary *)

ValuationSymbols == {"AAPL", "MSFT"}
\* position.shares in ticks: 0.3333 and 1 share
HoldingShares == {3333, 10000}
\* account.cash_balance in cents: 0.00 and 5.00
CashBalances == {0, 500}

\* one account and any holdings of the two symbols, bought at 5.00
InitValuation ==
    /\ \E cash \in CashBalances :
          accounts = {[id |-> 1, user_id |-> "u1", cash_balance |-> cash]}
    /\ \E held \in SUBSET ValuationSymbols :
          \E shares \in [held -> HoldingShares] :
             positions = {[id |-> IF s = "AAPL" THEN 2 ELSE 3, user_id |-> "u1",
                           symbol |-> s, shares |-> shares[s], avg_cost |-> 500]
                          : s \in held}
    /\ trades = <<>>
    /\ snapshots = <<>>
    /\ nextId = 4
    /\ req = [r \in Reqs |-> Idle]
    /\ started = 0
    /\ faults = 0
    /\ errors = 0
    /\ now = 0

\* err of a request that getQuotes rejected while only part of the quotes failed
PartialQuoteFailure == "upstream for part of the symbols"

(* getQuotes: getQuote rejects for some of the held symbols and resolves for the *)
(* others, so Promise.all rejects and buildPortfolioState throws                 *)
GetQuotesRejects(r) ==
    /\ req[r].pc = "buildSummaryState"
    /\ LET held == {p.symbol : p \in getPositions(req[r].user)} IN
       \E failed \in SUBSET held : failed # {} /\ failed # held
    /\ errors' = errors + 1
    /\ req' = [req EXCEPT ![r] = Throw(r, PartialQuoteFailure)]
    /\ UNCHANGED <<db, nextId, started, faults, now>>

NextValuation ==
    \E r \in {"r1"} :
        \/ SummaryStart(r)
        \/ GetAccount(r)
        \/ BuildSummaryState(r)
        \/ GetQuotesRejects(r)
        \/ GetLatestSnapshot(r)
        \/ MaybeCreateSnapshot(r)

ValuationSpec == InitValuation /\ [][NextValuation]_vars

----------------------------------------------------------------------------
(* calculateHoldings and calculateNetWorth on a quote map that may lack symbols, *)
(* as GET /portfolio/holdings applies them                                       *)

\* quotes of the provider: current (c) and change (d) in mills
QuoteRecords ==
    {[current |-> 4, change |-> 1], [current |-> 5000, change |-> 250],
     [current |-> 5000, change |-> 0 - 250]}

\* quote ? toNumber(quote.current) : 0
currentOf(quotes, symbol) ==
    IF symbol \in DOMAIN quotes THEN quotes[symbol].current ELSE 0

\* quote ? toNumber(quote.change) : 0
changeOf(quotes, symbol) ==
    IF symbol \in DOMAIN quotes THEN quotes[symbol].change ELSE 0

\* one element of calculateHoldings(positions, quotesBySymbol); gainPercent in 0.01 percent,
\* (gain / costBasis) * 100 with the shares cancelled (32-bit safe)
calculateHolding(position, quotes) ==
    LET currentPrice == currentOf(quotes, position.symbol)
        costBasis == 10 * position.avg_cost * position.shares
        gain == currentPrice * position.shares - costBasis
    IN [symbol |-> position.symbol,
        shares |-> roundShares(position.shares, 1),
        avgCost |-> roundMoney(position.avg_cost, 1),
        currentPrice |-> roundMoney(currentPrice, 10),
        marketValue |-> marketValue(currentPrice, position.shares),
        gain |-> roundMoney(gain, 100000),
        gainPercent |-> IF costBasis > 0
                        THEN roundMoney((currentPrice - 10 * position.avg_cost) * 1000,
                                        position.avg_cost)
                        ELSE 0]

\* calculateHoldings(positions, quotesBySymbol)
calculateHoldings(ps, quotes) == {calculateHolding(p, quotes) : p \in ps}

RECURSIVE sumMarketValue(_)
\* holdings.reduce((sum, holding) => sum + holding.marketValue, 0)
sumMarketValue(hs) ==
    IF hs = {} THEN 0
    ELSE LET h == CHOOSE x \in hs : TRUE IN h.marketValue + sumMarketValue(hs \ {h})

RECURSIVE sumChange(_, _)
\* holdings.reduce((sum, holding) => sum + change * holding.shares, 0), mills * ticks
sumChange(hs, quotes) ==
    IF hs = {} THEN 0
    ELSE LET h == CHOOSE x \in hs : TRUE IN
         changeOf(quotes, h.symbol) * h.shares + sumChange(hs \ {h}, quotes)

\* calculateNetWorth(cashBalance, holdings, quotesBySymbol)
calculateSummary(cashBalance, hs, quotes) ==
    [holdingsValue |-> roundMoney(sumMarketValue(hs), 1),
     netWorth |-> roundMoney(cashBalance + sumMarketValue(hs), 1),
     dailyChange |-> roundMoney(sumChange(hs, quotes), 100000)]

HoldingsStart(r) ==
    /\ req[r].pc \in {"idle", "done"}
    /\ started < MaxRequests
    /\ \E u \in Users :
          req' = [req EXCEPT ![r] =
                    [Idle EXCEPT !.pc = "getAccount", !.route = "holdings", !.user = u]]
    /\ started' = started + 1
    /\ UNCHANGED <<db, nextId, faults, errors, now>>

(* buildPortfolioState: the holdings and the summary from a quote map over any *)
(* part of the held symbols                                                   *)
BuildHoldingsState(r) ==
    /\ req[r].pc = "buildHoldingsState"
    /\ LET ps == getPositions(req[r].user) IN
       \E known \in SUBSET {p.symbol : p \in ps} :
          \E quotes \in [known -> QuoteRecords] :
             LET hs == calculateHoldings(ps, quotes)
                 summary == calculateSummary(req[r].account.cash_balance, hs, quotes)
             IN req' = [req EXCEPT ![r].pc = "sendHoldings",
                                   ![r].quotesBySymbol = quotes,
                                   ![r].holdings = hs,
                                   ![r].holdingsValue = summary.holdingsValue,
                                   ![r].netWorth = summary.netWorth,
                                   ![r].dailyChange = summary.dailyChange]
    /\ UNCHANGED <<db, nextId, started, faults, errors, now>>

(* res.json({ holdings }) *)
SendHoldings(r) ==
    /\ req[r].pc = "sendHoldings"
    /\ req' = [req EXCEPT ![r] = Respond(r, "200", "")]
    /\ UNCHANGED <<db, nextId, started, faults, errors, now>>

NextHoldings ==
    \E r \in {"r1"} :
        \/ HoldingsStart(r)
        \/ GetAccount(r)
        \/ BuildHoldingsState(r)
        \/ SendHoldings(r)

HoldingsSpec == InitValuation /\ [][NextHoldings]_vars


----------------------------------------------------------------------------
(* GET /portfolio/snapshots *)

\* the values of the range parameter: the five windows, MAX, and one the switch does not know
Ranges == {"1W", "1M", "6M", "YTD", "1Y", "MAX", "2D"}

\* the minute of the clock at which the calendar year of the requests begins
NewYear == 1

\* new Date(now.getFullYear(), 0, 1): midnight of January 1 of the current year
yearStart(at) == IF at >= NewYear THEN NewYear ELSE NewYear - 525600

\* resolveRange(range) in minutes, <<>> for null; a month window is taken at its
\* shortest (28 days, and 181 days for six months)
resolveRange(range, at) ==
    CASE range = "1W" -> <<at - 10080>>
      [] range = "1M" -> <<at - 40320>>
      [] range = "6M" -> <<at - 260640>>
      [] range = "YTD" -> <<yearStart(at)>>
      [] range = "1Y" -> <<at - 525600>>
      [] OTHER -> <<>>

\* getSnapshots(userId, fromTimestamp): the user's rows, gte(timestamp) when a start is given
getSnapshots(u, from) ==
    {i \in 1..Len(snapshots) :
        /\ snapshots[i].user_id = u
        /\ IF from = <<>> THEN TRUE ELSE snapshots[i].timestamp >= from[1]}

(* the range is normalized and resolved; an unknown range is answered 400 *)
ListStart(r) ==
    /\ req[r].pc \in {"idle", "done"}
    /\ started < MaxRequests
    /\ \E u \in Users, range \in Ranges :
          LET from == resolveRange(range, now) IN
          req' = [req EXCEPT ![r] =
                    IF from = <<>> /\ range # "MAX"
                    THEN [Idle EXCEPT !.pc = "done", !.resp = "Invalid range.",
                                      !.user = u, !.range = range, !.at = "resolveRange"]
                    ELSE [Idle EXCEPT !.pc = "getSnapshots", !.route = "snapshots",
                                      !.user = u, !.range = range, !.from = from]]
    /\ started' = started + 1
    /\ UNCHANGED <<db, nextId, faults, errors, now>>

(* await getSnapshots; rows found are returned, an empty result goes on to ensureAccount *)
GetSnapshots(r) ==
    /\ req[r].pc = "getSnapshots"
    /\ req' = [req EXCEPT ![r] =
                 IF getSnapshots(req[r].user, req[r].from) = {}
                 THEN [req[r] EXCEPT !.pc = "getAccount"]
                 ELSE Respond(r, "200", "")]
    /\ UNCHANGED <<db, nextId, started, faults, errors, now>>

(* buildPortfolioState({ userId, cashBalance: account.cash_balance }) of the empty range *)
BuildListState(r) ==
    /\ req[r].pc = "buildListState"
    /\ LET ps == getPositions(req[r].user) IN
       \E quotesBySymbol \in [{p.symbol : p \in ps} -> QuoteCurrents] :
          req' = [req EXCEPT ![r].pc = "insertListSnapshot",
                             ![r].netWorth =
                                 calculateNetWorth(req[r].account.cash_balance,
                                                   ps, quotesBySymbol)]
    /\ UNCHANGED <<db, nextId, started, faults, errors, now>>

(* insertSnapshot(req.user.id, summary.netWorth), snapshots.push(created), res.json *)
InsertListSnapshot(r) ==
    /\ req[r].pc = "insertListSnapshot"
    /\ snapshots' = Append(snapshots, snapshotRow(req[r].user, req[r].netWorth, now))
    /\ req' = [req EXCEPT ![r] = [Respond(r, "200", "") EXCEPT !.mutated = TRUE]]
    /\ UNCHANGED <<accounts, positions, trades, nextId, started, faults, errors, now>>

\* a user without trades or snapshots
InitList == Init /\ InitEmpty

\* summary and snapshot-list requests, one at a time
NextList ==
    \/ \E r \in {"r1"} :
          \/ SummaryStart(r)
          \/ ListStart(r)
          \/ GetAccount(r)
          \/ InsertAccount(r)
          \/ BuildSummaryState(r)
          \/ GetLatestSnapshot(r)
          \/ MaybeCreateSnapshot(r)
          \/ GetSnapshots(r)
          \/ BuildListState(r)
          \/ InsertListSnapshot(r)
          \/ StoreFails(r)
    \/ Tick

ListSpec == InitList /\ [][NextList]_vars

----------------------------------------------------------------------------
(* Trades of two users on two symbols *)

FrameUsers == {"u1", "u2"}

\* the payload quantity of these trades: 1 share
FrameQuantities == {100000}

\* u1 holds 1 AAPL and 1 MSFT bought at 2.50 each; u2 holds 1 AAPL bought at 5.00, or has
\* not used the service yet
InitFrame ==
    /\ \/ /\ accounts = {[id |-> 1, user_id |-> "u1", cash_balance |-> 500],
                         [id |-> 2, user_id |-> "u2", cash_balance |-> 500]}
          /\ positions = {[id |-> 3, user_id |-> "u1", symbol |-> "AAPL",
                           shares |-> 10000, avg_cost |-> 250],
                          [id |-> 4, user_id |-> "u1", symbol |-> "MSFT",
                           shares |-> 10000, avg_cost |-> 250],
                          [id |-> 5, user_id |-> "u2", symbol |-> "AAPL",
                           shares |-> 10000, avg_cost |-> 500]}
          /\ trades = <<[user_id |-> "u1", symbol |-> "AAPL", side |-> "BUY",
                         quantity |-> 10000, price |-> 250],
                        [user_id |-> "u1", symbol |-> "MSFT", side |-> "BUY",
                         quantity |-> 10000, price |-> 250],
                        [user_id |-> "u2", symbol |-> "AAPL", side |-> "BUY",
                         quantity |-> 10000, price |-> 500]>>
          /\ snapshots = <<[user_id |-> "u1", net_worth |-> 1000, timestamp |-> 0],
                           [user_id |-> "u1", net_worth |-> 1000, timestamp |-> 0],
                           [user_id |-> "u2", net_worth |-> 1000, timestamp |-> 0]>>
          /\ nextId = 6
       \/ /\ accounts = {[id |-> 1, user_id |-> "u1", cash_balance |-> 500]}
          /\ positions = {[id |-> 2, user_id |-> "u1", symbol |-> "AAPL",
                           shares |-> 10000, avg_cost |-> 250],
                          [id |-> 3, user_id |-> "u1", symbol |-> "MSFT",
                           shares |-> 10000, avg_cost |-> 250]}
          /\ trades = <<[user_id |-> "u1", symbol |-> "AAPL", side |-> "BUY",
                         quantity |-> 10000, price |-> 250],
                        [user_id |-> "u1", symbol |-> "MSFT", side |-> "BUY",
                         quantity |-> 10000, price |-> 250]>>
          /\ snapshots = <<[user_id |-> "u1", net_worth |-> 1000, timestamp |-> 0],
                           [user_id |-> "u1", net_worth |-> 1000, timestamp |-> 0]>>
          /\ nextId = 4
    /\ req = [r \in Reqs |-> Idle]
    /\ started = 0
    /\ faults = 0
    /\ errors = 0
    /\ now = 0

(* POST /trades of either user on either symbol *)
FrameStart(r) ==
    /\ req[r].pc \in {"idle", "done"}
    /\ started < MaxRequests
    /\ \E u \in FrameUsers, s \in ValuationSymbols, sd \in Sides, q \in FrameQuantities :
          req' = [req EXCEPT ![r] =
                    [Idle EXCEPT !.pc = "getAccount", !.route = "trades", !.user = u,
                                 !.symbol = s, !.side = sd, !.payloadQuantity = q]]
    /\ started' = started + 1
    /\ UNCHANGED <<db, nextId, faults, errors, now>>

NextFrame ==
    \E r \in Reqs :
        \/ FrameStart(r)
        \/ GetAccount(r)
        \/ InsertAccount(r)
        \/ RefetchAccount(r)
        \/ GetQuote(r)
        \/ SelectPosition(r)
        \/ UpdateCash(r)
        \/ WritePosition(r)
        \/ InsertTrade(r)
        \/ BuildPortfolioState(r)
        \/ InsertSnapshot(r)
        \/ StoreFails(r)
        \/ QuoteThrows(r)

FrameSpec == InitFrame /\ [][NextFrame]_vars

----------------------------------------------------------------------------
(* POST /trades with a quote provider that may not answer *)

(* fetchJson: await fetch(url) is issued and the provider sends no response *)
QuoteNeverAnswers(r) ==
    /\ req[r].pc = "getQuote"
    /\ req' = [req EXCEPT ![r].pc = "fetchPending"]
    /\ UNCHANGED <<db, nextId, started, faults, errors, now>>

(* await fetch(url) rejects: the connection breaks or the runtime gives up waiting; the
   code sets no timer of its own and the error carries no isUpstream *)
FetchRejects(r) ==
    /\ req[r].pc = "fetchPending"
    /\ errors' = errors + 1
    /\ req' = [req EXCEPT ![r] = Throw(r, "fetch failed")]
    /\ UNCHANGED <<db, nextId, started, faults, now>>

\* the steps of request r that follow from a call returning to the handler
HandlerStep(r) ==
    \/ GetAccount(r)
    \/ InsertAccount(r)
    \/ RefetchAccount(r)
    \/ GetQuote(r)
    \/ SelectPosition(r)
    \/ UpdateCash(r)
    \/ WritePosition(r)
    \/ InsertTrade(r)
    \/ BuildPortfolioState(r)
    \/ InsertSnapshot(r)

NextLive ==
    \E r \in Reqs :
        \/ Start(r)
        \/ HandlerStep(r)
        \/ StoreFails(r)
        \/ QuoteThrows(r)
        \/ QuoteNeverAnswers(r)
        \/ FetchRejects(r)

\* every call that can return does return and the handler goes on; nothing in the code
\* ends a fetch that is not answered
LiveSpec == Init /\ [][NextLive]_vars /\ \A r \in Reqs : WF_vars(HandlerStep(r))
----------------------------------------------------------------------------
(* Properties *)

\* notional of a recorded trade
TradeNotional(t) == roundMoney(t.price * t.quantity, 10000)

RECURSIVE cashFlow(_, _)
\* net cash effect of user u's first n recorded trades: SELL notionals minus BUY notionals
cashFlow(u, n) ==
    IF n = 0 THEN 0
    ELSE cashFlow(u, n - 1)
         + (IF trades[n].user_id # u THEN 0
            ELSE IF trades[n].side = "BUY" THEN 0 - TradeNotional(trades[n])
            ELSE TradeNotional(trades[n]))

RECURSIVE shareFlow(_, _, _)
\* net quantity of (u, s) over the first n recorded trades: BUY minus SELL quantities
shareFlow(u, s, n) ==
    IF n = 0 THEN 0
    ELSE shareFlow(u, s, n - 1)
         + (IF trades[n].user_id # u \/ trades[n].symbol # s THEN 0
            ELSE IF trades[n].side = "BUY" THEN trades[n].quantity
            ELSE 0 - trades[n].quantity)

\* every request has returned its response
AllComplete == \A r \in Reqs : req[r].pc \in {"idle", "done"}

\* handler positions that await a cash, position or trade write
WriteSteps == {"updateCash", "writePosition", "insertTrade"}

InsufficientResponses == {"Insufficient cash balance.", "Insufficient shares to sell."}

\* C1: once all trade requests have completed (none of them having failed), every
\* account's cash_balance is the default balance minus the notional of every BUY the
\* user has on record plus the notional of every SELL on record.
C1_CashMatchesTradeLog ==
    (AllComplete /\ errors = 0) =>
        \A a \in accounts :
            a.cash_balance = roundMoney(defaultCashBalance * 100, 1)
                               + cashFlow(a.user_id, Len(trades))

\* C2: once all trade requests have completed (none of them having failed), for every
\* (user, symbol) the recorded BUY quantities minus the recorded SELL quantities are
\* not negative, the position row is absent exactly when they are zero, and a present
\* row holds exactly that many shares.
C2_SharesMatchTradeLog ==
    (AllComplete /\ errors = 0) =>
        \A u \in Users, s \in Symbols :
            LET net == shareFlow(u, s, Len(trades)) IN
            /\ net >= 0
            /\ (PositionRows(u, s) = {}) <=> (net = 0)
            /\ \A p \in PositionRows(u, s) : p.shares = net

\* C3: a trade request that ended in an error at its cash, position or trade write has
\* changed nothing in accounts, positions, trades or snapshots.
C3_FailedWriteLeavesNoMutation ==
    \A r \in Reqs :
        (req[r].resp = "error" /\ req[r].at \in WriteSteps) => ~req[r].mutated

\* C4: in every reachable state every account's cash_balance is >= 0.
C4_CashNeverNegative == \A a \in accounts : a.cash_balance >= 0

\* C4 witness: two BUYs that both read cash 5.00 were both recorded and the balance
\* stands at 0.
C4_Witness ==
    /\ Len(trades) = 3
    /\ trades[2].side = "BUY" /\ trades[3].side = "BUY"
    /\ \E a \in accounts : a.cash_balance = 0

\* C5: a BUY is rejected for insufficient cash exactly when its notional exceeds the
\* cash_balance of the account the handler resolved, and is otherwise passed on to the
\* cash update; that update leaves the stored cash_balance at its previous value minus
\* the notional whenever the stored value is still the one the handler resolved.
C5_BuySafety ==
    [][\A r \in Reqs :
        /\ (/\ req[r].pc = "selectPosition" /\ req[r].side = "BUY"
            /\ req'[r].pc # "selectPosition" /\ req'[r].resp # "error")
           => /\ (req'[r].resp = "Insufficient cash balance.")
                    <=> (req[r].notional > req[r].account.cash_balance)
              /\ (req'[r].resp # "Insufficient cash balance.")
                    => req'[r].pc = "updateCash"
        /\ (/\ req[r].pc = "updateCash" /\ req[r].side = "BUY"
            /\ req'[r].pc = "writePosition"
            /\ \A a \in AccountRows(req[r].user) :
                   a.cash_balance = req[r].account.cash_balance)
           => \A a \in accounts' :
                  a.user_id = req[r].user
                     => a.cash_balance = req[r].account.cash_balance - req[r].notional
      ]_vars

\* C5 witness: a BUY whose notional equals the whole balance has been accepted and has
\* debited the account to 0.
C5_Witness ==
    \E r \in Reqs :
        /\ req[r].pc = "writePosition" /\ req[r].side = "BUY"
        /\ req[r].notional > 0
        /\ req[r].notional = req[r].account.cash_balance
        /\ \A a \in AccountRows(req[r].user) : a.cash_balance = 0

\* C6: a SELL is rejected when no position row is stored for (user, symbol) or when its
\* rounded quantity exceeds the stored shares, and no step leaves a position row with
\* shares below 0.
C6_SellSafety ==
    [][/\ \A r \in Reqs :
            (/\ req[r].pc = "selectPosition" /\ req[r].side = "SELL"
             /\ req'[r].pc # "selectPosition" /\ req'[r].resp # "error"
             /\ \/ PositionRows(req[r].user, req[r].symbol) = {}
                \/ \E p \in PositionRows(req[r].user, req[r].symbol) :
                       req[r].quantity > p.shares)
            => req'[r].resp = "Insufficient shares to sell."
       /\ \A p \in positions' : p.shares >= 0
      ]_vars

\* C6 witness: a SELL of exactly the shares held has been accepted and has removed the
\* position row.
C6_Witness ==
    \E r \in Reqs :
        /\ req[r].pc = "insertTrade" /\ req[r].side = "SELL"
        /\ req[r].existingPosition # NoRow
        /\ req[r].quantity = req[r].existingPosition.shares
        /\ PositionRows(req[r].user, req[r].symbol) = {}

\* C7: the step that rejects a trade for insufficient cash or insufficient shares leaves
\* accounts, positions, trades and snapshots unchanged, and the rejected request has
\* made no change to them before.
C7_RejectionMutatesNothing ==
    [][\A r \in Reqs :
        (req[r].pc # "done" /\ req'[r].resp \in InsufficientResponses)
           => /\ UNCHANGED db
              /\ ~req[r].mutated /\ ~req'[r].mutated
      ]_vars

\* C7 witness: with cash 5.00 on the account a BUY has been rejected for insufficient
\* cash while another request has been rejected for insufficient shares.
C7_Witness ==
    /\ \E r \in Reqs : req[r].resp = "Insufficient cash balance."
    /\ \E r \in Reqs : req[r].resp = "Insufficient shares to sell."
    /\ \E a \in accounts : a.cash_balance = 500

\* C8: in every reachable state every position row has shares > 0.
C8_NoZeroShareRow == \A p \in positions : p.shares > 0

\* C8 witness: a SELL that brought the shares to zero has been recorded and the
\* position row is gone.
C8_Witness ==
    /\ Len(trades) >= 2
    /\ trades[Len(trades)].side = "SELL"
    /\ shareFlow(trades[Len(trades)].user_id, trades[Len(trades)].symbol, Len(trades)) = 0
    /\ positions = {}
    /\ AllComplete

\* C9: there is at most one position row per (user_id, symbol), and no BUY that has
\* debited the account fails at its position write on the unique constraint (concurrent
\* first buys all succeed).
C9_OneRowAndFirstBuysSucceed ==
    /\ \A u \in Users, s \in Symbols : Cardinality(PositionRows(u, s)) <= 1
    /\ \A r \in Reqs :
           ~(req[r].side = "BUY" /\ req[r].resp = "error" /\ req[r].mutated
             /\ req[r].at = "writePosition" /\ req[r].err = "23505")

\* a step of ensureAccount by request r
EnsureAccountStep(r) ==
    /\ req[r].pc \in {"getAccount", "insertAccount", "refetchAccount"}
    /\ req'[r] # req[r]

\* C10: every user has at most one account row; a step of ensureAccount changes no
\* existing account row, creates a row only with the default balance and only when the
\* user has none, and the account it returns is the user's stored row.
C10_SingleAccount ==
    /\ [](\A u \in Users : Cardinality(AccountRows(u)) <= 1)
    /\ [][\A r \in Reqs :
            EnsureAccountStep(r) =>
               /\ \A a \in accounts : a \in accounts'
               /\ \A a \in accounts' \ accounts :
                     /\ a.user_id = req[r].user
                     /\ a.cash_balance = roundMoney(defaultCashBalance * 100, 1)
                     /\ AccountRows(req[r].user) = {}
               /\ req'[r].pc = "getQuote" =>
                     /\ req'[r].account \in accounts'
                     /\ req'[r].account.user_id = req[r].user
         ]_vars

\* C10 witness: a first access lost the insert race and re-reads the single account the
\* other first access created.
C10_Witness ==
    \E r \in Reqs :
        /\ req[r].pc = "refetchAccount"
        /\ Cardinality(AccountRows(req[r].user)) = 1

\* C11: a SELL's position write creates no row and leaves the avg_cost of every row it
\* keeps as it was; a step that changes the avg_cost of a stored row, or stores a new
\* row, is the position write of a BUY.
C11_SellKeepsAvgCost ==
    [][/\ \A r \in Reqs :
            (req[r].pc = "writePosition" /\ req[r].side = "SELL" /\ req'[r] # req[r])
            => \A q \in positions' :
                   \E p \in positions : p.id = q.id /\ p.avg_cost = q.avg_cost
       /\ \A q \in positions' :
            (\A p \in positions : p.id = q.id => p.avg_cost # q.avg_cost)
            => \E r \in Reqs : /\ req[r].pc = "writePosition" /\ req[r].side = "BUY"
                               /\ req'[r].pc = "insertTrade"
      ]_vars

\* C11 witness: a SELL of part of the holding has written the position, the row is still
\* there with fewer shares and with the avg_cost the SELL had read.
C11_Witness ==
    \E r \in Reqs :
        /\ req[r].pc = "insertTrade" /\ req[r].side = "SELL"
        /\ req[r].updatedShares > 0
        /\ \E p \in PositionRows(req[r].user, req[r].symbol) :
               /\ p.id = req[r].existingPosition.id
               /\ p.shares = req[r].updatedShares
               /\ p.shares < req[r].existingPosition.shares
               /\ p.avg_cost = req[r].existingPosition.avg_cost
               /\ p.avg_cost > 0

\* quote.current values of a provider answer without a usable price: negative, absent/0
NoCurrentPrices == {-5000, 0}

\* C12: a trade request whose quote has no current price, or one <= 0, is answered with
\* "Quote unavailable for symbol."; the step that gives this answer leaves accounts,
\* positions, trades and snapshots unchanged and the request has changed none of them
\* before.
C12_QuoteUnavailableRejected ==
    /\ [](\A r \in Reqs :
            req[r].pc = "getQuote" =>
               \A current \in NoCurrentPrices :
                   /\ Quoted(r, current).resp = "Quote unavailable for symbol."
                   /\ Quoted(r, current).pc = "done")
    /\ [][\A r \in Reqs :
            (req[r].pc # "done" /\ req'[r].resp = "Quote unavailable for symbol.")
               => /\ UNCHANGED db
                  /\ req[r].pc = "getQuote"
                  /\ ~req[r].mutated /\ ~req'[r].mutated
         ]_vars

\* C12 witness: a trade request of a user holding a position has been answered with
\* quote unavailable, the tables being those of before the request.
C12_Witness ==
    \E r \in Reqs :
        /\ req[r].resp = "Quote unavailable for symbol." /\ req[r].at = "getQuote"
        /\ started = 1
        /\ InitHolding

\* the trade row request r inserts: its rounded quantity and its rounded price
OwnTrade(r) ==
    [user_id |-> req[r].user, symbol |-> req[r].symbol, side |-> req[r].side,
     quantity |-> req[r].quantity, price |-> req[r].price]

\* C13: no step removes or alters a recorded trade; the trade log changes only by the
\* trade insert of one request, which appends exactly one row holding the request's
\* symbol and side, the quantity rounded to 4 decimals and the price rounded to 2
\* decimals, the same values from which the notional, the cash written and the shares
\* written were computed; a request past its trade insert has its row on record and a
\* 201 is only given by a request past its trade insert.
C13_TradeLogAppendOnly ==
    /\ [](\A r \in Reqs :
            req[r].pc \in {"buildPortfolioState", "insertSnapshot"}
               => \E i \in 1..Len(trades) : trades[i] = OwnTrade(r))
    /\ [][/\ Len(trades') >= Len(trades)
          /\ \A i \in 1..Len(trades) : trades'[i] = trades[i]
          /\ trades' # trades =>
                \E r \in Reqs : /\ req[r].pc = "insertTrade"
                                /\ req'[r].pc = "buildPortfolioState"
          /\ \A r \in Reqs :
                /\ (req[r].pc # "done" /\ req'[r].resp = "201")
                      => req[r].pc = "insertSnapshot"
                /\ (req[r].pc = "insertTrade" /\ req'[r].pc = "buildPortfolioState")
                      => LET t == trades'[Len(trades')]
                             sign == IF req[r].side = "BUY" THEN 1 ELSE 0 - 1
                             existingShares ==
                                 IF req[r].existingPosition = NoRow THEN 0
                                 ELSE req[r].existingPosition.shares
                         IN /\ trades' = Append(trades, t)
                            /\ t = OwnTrade(r)
                            /\ t.quantity = roundShares(req[r].payloadQuantity, 10)
                            /\ TradeNotional(t) = req[r].notional
                            /\ req[r].updatedCash
                                  = req[r].account.cash_balance - sign * TradeNotional(t)
                            /\ req[r].updatedShares = existingShares + sign * t.quantity
         ]_vars

\* C13 witness: two trade requests have been answered 201 and the log holds the trade
\* that was on record before them followed by their two rows.
C13_Witness ==
    /\ \A r \in Reqs : req[r].resp = "201"
    /\ Len(trades) = 3
    /\ trades[1] = [user_id |-> "u1", symbol |-> "AAPL", side |-> "BUY",
                    quantity |-> 10000, price |-> 500]
    /\ trades[3].quantity = 20000

\* C16: the step that answers a trade request with 201 appends one snapshot row of that
\* user, stamped with the current time, whatever the age of the user's latest snapshot;
\* the row's net_worth is the summary the request computed after its writes: the cash
\* balance it wrote plus the market value of the user's stored positions.
C16_TradeAlwaysSnapshots ==
    [][\A r \in Reqs :
        /\ (req[r].pc # "done" /\ req'[r].resp = "201")
              => snapshots' = Append(snapshots,
                                     [user_id |-> req[r].user,
                                      net_worth |-> req[r].netWorth,
                                      timestamp |-> now])
        /\ (req[r].pc = "buildPortfolioState" /\ req'[r].pc = "insertSnapshot")
              => \E quotesBySymbol \in [{p.symbol : p \in getPositions(req[r].user)}
                                           -> QuoteCurrents] :
                     req'[r].netWorth
                        = req[r].updatedCash
                          + holdingsValueOf(getPositions(req[r].user), quotesBySymbol)
      ]_vars

\* C16 witness: a trade has been answered 201 and its snapshot row follows a snapshot of
\* the same user that is younger than the snapshot interval.
C16_Witness ==
    \E r \in Reqs :
        /\ req[r].resp = "201"
        /\ Len(snapshots) >= 2
        /\ snapshots[Len(snapshots)].user_id = snapshots[Len(snapshots) - 1].user_id
        /\ snapshots[Len(snapshots)].timestamp - snapshots[Len(snapshots) - 1].timestamp
              < snapshotEveryMinutes

\* request r's maybeCreateSnapshot decides and the summary is answered
MaybeSnapshotReturns(r) ==
    /\ req[r].pc = "maybeCreateSnapshot"
    /\ req'[r].resp = "200"

\* C14: a maybeCreateSnapshot call that no other call overlaps (the latest snapshot it
\* read is still the user's latest) inserts one row when the user has no snapshot, and
\* writes nothing when the latest snapshot is younger than snapshotEveryMinutes; so two
\* calls in sequence less than the interval apart, the first finding no snapshot, leave
\* exactly one row.
C14_SequentialThrottle ==
    [][\A r \in Reqs :
        (MaybeSnapshotReturns(r) /\ req[r].latest = getLatestSnapshot(req[r].user))
           => /\ req[r].latest = NoRow
                    => snapshots' = Append(snapshots,
                                           [user_id |-> req[r].user,
                                            net_worth |-> req[r].netWorth,
                                            timestamp |-> now])
              /\ (req[r].latest # NoRow
                    /\ now - req[r].latest.timestamp < snapshotEveryMinutes)
                    => snapshots' = snapshots
      ]_vars

\* C14 witness: starting without snapshots, two summary requests have been answered, the
\* first has inserted a row at minute 0, the other found it a minute later and wrote
\* nothing, and there is one row.
C14_Witness ==
    /\ started = 2 /\ AllComplete
    /\ \E r1, r2 \in Reqs :
          /\ req[r1].resp = "200" /\ req[r1].mutated
          /\ req[r2].resp = "200" /\ ~req[r2].mutated
    /\ trades = <<>>
    /\ Len(snapshots) = 1
    /\ snapshots[1].timestamp = 0 /\ now = 1

\* the snapshot rows of user u
SnapshotRows(u) == {i \in 1..Len(snapshots) : snapshots[i].user_id = u}

\* C15: while less than snapshotEveryMinutes have passed since the first summary request,
\* a user has at most one snapshot row, however the maybeCreateSnapshot calls overlap,
\* and has one as soon as a summary request has been answered.
C15_OverlappingCallsOneRow ==
    now < snapshotEveryMinutes =>
        \A u \in Users :
            /\ Cardinality(SnapshotRows(u)) <= 1
            /\ (\E r \in Reqs : req[r].resp = "200" /\ req[r].user = u)
                  => Cardinality(SnapshotRows(u)) = 1

\* C17: at the moment a summary request is answered successfully the user has a
\* snapshot row and the most recent one is younger than snapshotEveryMinutes.
C17_FreshSnapshotAfterSummary ==
    [][\A r \in Reqs :
        (req[r].pc # "done" /\ req'[r].resp = "200")
           => \E i \in 1..Len(snapshots') :
                 /\ snapshots'[i].user_id = req[r].user
                 /\ now' - snapshots'[i].timestamp < snapshotEveryMinutes
                 /\ now' - snapshots'[i].timestamp >= 0
      ]_vars

\* C17 witness: a summary request has been answered after inserting a row because the
\* previous row had reached the age of snapshotEveryMinutes, and another summary request
\* has been answered without a write.
C17_Witness ==
    /\ \E r \in Reqs : req[r].resp = "200" /\ req[r].mutated
    /\ \E r \in Reqs : req[r].resp = "200" /\ ~req[r].mutated
    /\ Len(snapshots) = 2
    /\ snapshots[2].timestamp - snapshots[1].timestamp >= snapshotEveryMinutes
    /\ now = snapshots[2].timestamp

\* cash (cents), shares (ticks) and avg_cost (cents) after each request of the scenario;
\* shares 0 stands for no position row
ScenarioExpected ==
    <<[cash |-> 9850000, shares |-> 100000, avg_cost |-> 15000],
      [cash |-> 9760000, shares |-> 150000, avg_cost |-> 16000],
      [cash |-> 9860000, shares |-> 100000, avg_cost |-> 16000],
      [cash |-> 10070000, shares |-> 0, avg_cost |-> 0]>>

\* C18: from cash 100000 and no positions, BUY 10 at 150, BUY 5 at 180, SELL 5 at 200 and
\* SELL 10 at 210 of one symbol are each answered 201 and leave, in turn, cash 98500 with
\* position (10, 150), cash 97600 with (15, 160), cash 98600 with (10, 160), and cash
\* 100700 with no position row.
C18_WorkedExample ==
    \A r \in {"r1"} :
        (started >= 1 /\ req[r].pc = "done") =>
            LET e == ScenarioExpected[started] IN
            /\ req[r].resp = "201"
            /\ Len(trades) = started
            /\ \A a \in accounts : a.cash_balance = e.cash
            /\ Cardinality(accounts) = 1
            /\ IF e.shares = 0 THEN positions = {}
               ELSE /\ Cardinality(positions) = 1
                    /\ \A p \in positions :
                          /\ p.user_id = "u1" /\ p.symbol = "AAPL"
                          /\ p.shares = e.shares /\ p.avg_cost = e.avg_cost

\* C18 witness: the fourth request has been answered, the cash stands at 100700 and the
\* position row is gone.
C18_Witness ==
    /\ started = 4 /\ req["r1"].pc = "done" /\ req["r1"].resp = "201"
    /\ Len(trades) = 4 /\ trades[4].side = "SELL" /\ trades[4].price = 21000
    /\ \A a \in accounts : a.cash_balance = 10070000
    /\ positions = {}

RECURSIVE costFlow(_, _, _)
\* sum of quantity * price over the BUYs of (u, s) among the first n recorded trades
costFlow(u, s, n) ==
    IF n = 0 THEN 0
    ELSE costFlow(u, s, n - 1)
         + (IF trades[n].user_id = u /\ trades[n].symbol = s /\ trades[n].side = "BUY"
            THEN trades[n].quantity * trades[n].price ELSE 0)

\* C19: after BUYs only of one symbol by one user, run one at a time, the position holds
\* the sum of the bought quantities and its avg_cost differs from
\* sum(quantity * price) / sum(quantity) by at most half a cent for every BUY after the
\* first (each BUY rounds the average to cents once; the first average is the price).
C19_WeightedAverageCost ==
    (AllComplete /\ Len(trades) >= 1 /\ \A i \in 1..Len(trades) : trades[i].side = "BUY")
    => \A u \in Users, s \in Symbols :
          LET bought == shareFlow(u, s, Len(trades))
              cost == costFlow(u, s, Len(trades))
          IN /\ Cardinality(PositionRows(u, s)) = 1
             /\ \A p \in PositionRows(u, s) :
                   /\ p.shares = bought
                   /\ 2 * (p.avg_cost * bought - cost) <= (Len(trades) - 1) * bought
                   /\ 2 * (cost - p.avg_cost * bought) <= (Len(trades) - 1) * bought

\* C19 witness: three BUYs at three different prices have been answered and the stored
\* avg_cost is not the exact quotient (the rounding took part).
C19_Witness ==
    /\ AllComplete /\ Len(trades) = 3
    /\ trades[1].price # trades[2].price /\ trades[2].price # trades[3].price
    /\ trades[1].price # trades[3].price
    /\ \E p \in positions :
          p.avg_cost * shareFlow(p.user_id, p.symbol, 3) # costFlow(p.user_id, p.symbol, 3)

RECURSIVE exactValue(_, _)
\* sum of currentPrice * shares over the positions ps, in mills * ticks (0.00001 cent);
\* a symbol whose quote has no current price counts 0
exactValue(ps, quotesBySymbol) ==
    IF ps = {} THEN 0
    ELSE LET p == CHOOSE x \in ps : TRUE IN
         quotesBySymbol[p.symbol] * p.shares + exactValue(ps \ {p}, quotesBySymbol)

RECURSIVE centsValue(_, _)
\* sum over the positions ps of currentPrice * shares rounded to the cent
centsValue(ps, quotesBySymbol) ==
    IF ps = {} THEN 0
    ELSE LET p == CHOOSE x \in ps : TRUE IN
         round(quotesBySymbol[p.symbol] * p.shares, 100000)
           + centsValue(ps \ {p}, quotesBySymbol)

\* request r holds the summary it has just computed from the stored cash and positions
SummaryComputed(r) ==
    /\ req[r].route = "summary"
    /\ req[r].pc = "getLatestSnapshot"

\* C20 as claimed: the summary's netWorth is the cash balance plus the sum of
\* shares * currentPrice over the holdings with a quote (expressed in cents), and
\* holdingsValue is netWorth minus the cash balance.
C20_NetWorthIdentity ==
    \A r \in Reqs :
        SummaryComputed(r) =>
            LET ps == getPositions(req[r].user)
                cash == req[r].account.cash_balance
            IN /\ req[r].netWorth
                    = roundMoney(cash * 100000 + exactValue(ps, req[r].quotesBySymbol),
                                 100000)
               /\ req[r].holdingsValue = req[r].netWorth - cash

\* C20 amended: netWorth is the cash balance plus the sum over the holdings of
\* shares * currentPrice rounded to the cent for each holding; it differs from the cash
\* balance plus the sum of shares * currentPrice by at most half a cent per holding;
\* holdingsValue is netWorth minus the cash balance.
C20_NetWorthOfRoundedHoldings ==
    \A r \in Reqs :
        SummaryComputed(r) =>
            LET ps == getPositions(req[r].user)
                cash == req[r].account.cash_balance
                exact == cash * 100000 + exactValue(ps, req[r].quotesBySymbol)
            IN /\ req[r].netWorth = cash + centsValue(ps, req[r].quotesBySymbol)
               /\ req[r].holdingsValue = req[r].netWorth - cash
               /\ 2 * (req[r].netWorth * 100000 - exact) <= Cardinality(ps) * 100000
               /\ 2 * (exact - req[r].netWorth * 100000) <= Cardinality(ps) * 100000

\* C20 witness: a summary of two holdings of 0.3333 share quoted at 5.00 has been
\* computed: each is valued 1.67, the net worth is cash + 3.34, the exact sum being
\* 3.333.
C20_Witness ==
    \E r \in Reqs :
        /\ SummaryComputed(r)
        /\ Cardinality(getPositions(req[r].user)) = 2
        /\ \A p \in getPositions(req[r].user) :
              p.shares = 3333 /\ req[r].quotesBySymbol[p.symbol] = 5000
        /\ req[r].holdingsValue = 334
        /\ req[r].netWorth = req[r].account.cash_balance + 334

\* C21: a holding whose symbol the quote map lacks has marketValue 0, gain 0 and
\* gainPercent 0, and the summary's holdingsValue and dailyChange are those of the other
\* holdings alone.
C21_AbsentQuoteContributesZero ==
    \A r \in Reqs :
        req[r].pc = "sendHoldings" =>
            LET absent == {h \in req[r].holdings : h.symbol \notin DOMAIN req[r].quotesBySymbol}
                others == req[r].holdings \ absent
            IN /\ \A h \in absent :
                     h.marketValue = 0 /\ h.gain = 0 /\ h.gainPercent = 0
               /\ req[r].holdingsValue = sumMarketValue(others)
               /\ req[r].dailyChange
                     = roundMoney(sumChange(others, req[r].quotesBySymbol), 100000)

\* C22: a summary request during which the quote fetch failed for one held symbol and
\* succeeded for the others is not answered with an error: it completes with holdings and
\* net worth.
C22_PartialQuoteFailureTolerated ==
    \A r \in Reqs :
        ~(req[r].resp = "error" /\ req[r].err = PartialQuoteFailure)

\* C23: a trade request that has changed the cash or a position runs at a rounded price
\* > 0 and a rounded quantity > 0 (a quote rounding to 0.00 or a quantity rounding to 0 is
\* rejected before any change).
C23_PositivePriceAndQuantity ==
    \A r \in Reqs :
        (req[r].pc \in {"writePosition", "insertTrade", "buildPortfolioState",
                        "insertSnapshot"}
         /\ req[r].mutated)
           => req[r].price > 0 /\ req[r].quantity > 0

\* handler positions after the trade insert
AfterTradeSteps == {"buildPortfolioState", "insertSnapshot"}

\* C24: a trade request that is answered with an error has changed no cash, position or
\* trade; in particular a request that has written its trade row is not answered with an
\* error when its valuation or its snapshot write fails.
C24_ErrorMeansNoChange ==
    \A r \in Reqs :
        (req[r].resp = "error" /\ req[r].at \notin WriteSteps)
           => ~req[r].mutated /\ req[r].at \notin AfterTradeSteps

\* the net worth of what is stored for user u, for some quotes of the held symbols
StoredNetWorths(u) ==
    LET ps == getPositions(u) IN
    {calculateNetWorth(a.cash_balance, ps, quotesBySymbol) :
        a \in AccountRows(u),
        quotesBySymbol \in [{p.symbol : p \in ps} -> QuoteCurrents]}

\* C25: the net worth a successful trade writes to its snapshot and returns is the cash
\* stored at that moment plus the market value of the positions stored at that moment,
\* also when another trade of the user committed after this trade read the account.
C25_SnapshotNetWorthIsStoredState ==
    [][\A r \in Reqs :
          (req[r].pc = "insertSnapshot" /\ req'[r].resp = "201")
             => req[r].netWorth \in StoredNetWorths(req[r].user)]_vars

\* C26: snapshot rows are only ever appended (none is updated or deleted, so a user who
\* has a snapshot keeps having one), and a maybeCreateSnapshot call writes a row only
\* when the user has no snapshot or the user's latest snapshot is at least
\* snapshotEveryMinutes old.
C26_AppendOnlyAndThrottled ==
    [][/\ Len(snapshots') >= Len(snapshots)
       /\ SubSeq(snapshots', 1, Len(snapshots)) = snapshots
       /\ \A r \in Reqs :
             (req[r].pc = "maybeCreateSnapshot" /\ req'[r].resp = "200"
              /\ snapshots' # snapshots)
                => SnapshotDue(getLatestSnapshot(req[r].user), now)
      ]_vars

\* user u has sold symbol s and holds no row for it
SoldOut(u, s) ==
    /\ PositionRows(u, s) = {}
    /\ \E i \in 1..Len(trades) :
          trades[i].user_id = u /\ trades[i].symbol = s /\ trades[i].side = "SELL"

\* C29: when the position of a symbol was deleted by a SELL of all its shares, the write
\* of the next BUY of that symbol (one that found no row) inserts a new row whose shares
\* are the BUY's rounded quantity and whose avg_cost is the BUY's rounded price.
C29_BuyAfterSellOutStartsAfresh ==
    [][\A r \in Reqs :
          (WritePosition(r) /\ req[r].side = "BUY" /\ req[r].existingPosition = NoRow
           /\ SoldOut(req[r].user, req[r].symbol))
             => /\ req'[r].pc = "insertTrade"
                /\ positions' = positions \cup
                      {[id |-> nextId, user_id |-> req[r].user, symbol |-> req[r].symbol,
                        shares |-> req[r].quantity, avg_cost |-> req[r].price]}
                /\ \A p \in positions : p.id # nextId
      ]_vars

\* C29 witness: the holding of 1 AAPL was sold (the SELL is on record, row 2 is gone) and
\* a BUY of 1 AAPL at 5.00 that found no row has inserted row 3 with 1 share at 5.00.
C29_Witness ==
    /\ \E i \in 1..Len(trades) : trades[i].side = "SELL" /\ trades[i].quantity = 10000
    /\ positions = {[id |-> 3, user_id |-> "u1", symbol |-> "AAPL",
                     shares |-> 10000, avg_cost |-> 500]}
    /\ \E r \in Reqs :
          /\ req[r].pc = "insertTrade" /\ req[r].side = "BUY"
          /\ req[r].existingPosition = NoRow
          /\ req[r].quantity = 10000 /\ req[r].price = 500

\* C27: with summary and snapshot-list requests served one at a time and no trades, any
\* two snapshot rows of a user are at least snapshotEveryMinutes apart.
C27_ListKeepsTheInterval ==
    \A u \in Users :
        \A i, j \in SnapshotRows(u) :
            i < j => snapshots[j].timestamp - snapshots[i].timestamp >= snapshotEveryMinutes

\* the rows of a table (a sequence) that do not belong to user u
RowsOfOthers(rows, u) ==
    LET other(t) == t.user_id # u IN SelectSeq(rows, other)

\* C28: a step of a trade of user U on symbol S leaves every position of U on another
\* symbol, and every account, position, trade and snapshot of any other user, as it
\* was, however the requests interleave; starting a request changes no table.
C28_TradeTouchesOwnRowsOnly ==
    [][\A r \in Reqs :
          req'[r] # req[r] =>
             IF req[r].pc \in {"idle", "done"}
             THEN UNCHANGED db
             ELSE LET u == req[r].user
                      s == req[r].symbol
                  IN /\ {a \in accounts' : a.user_id # u} = {a \in accounts : a.user_id # u}
                     /\ {p \in positions' : p.user_id # u \/ p.symbol # s}
                           = {p \in positions : p.user_id # u \/ p.symbol # s}
                     /\ RowsOfOthers(trades', u) = RowsOfOthers(trades, u)
                     /\ RowsOfOthers(snapshots', u) = RowsOfOthers(snapshots, u)
      ]_vars

\* C28 witness: u1's BUY of AAPL has been answered 201 while a trade of u2 is about to
\* write its position; u1's MSFT row and u2's account are as they were.
C28_Witness ==
    /\ \E r \in Reqs :
          /\ req[r].resp = "201" /\ req[r].user = "u1" /\ req[r].symbol = "AAPL"
          /\ req[r].side = "BUY"
    /\ \E r \in Reqs : req[r].user = "u2" /\ req[r].pc = "writePosition"
    /\ \E p \in positions :
          /\ p.user_id = "u1" /\ p.symbol = "AAPL" /\ p.shares = 20000
    /\ \E p \in positions :
          /\ p.user_id = "u1" /\ p.symbol = "MSFT" /\ p.shares = 10000 /\ p.avg_cost = 250
    /\ \E a \in accounts : a.user_id = "u2"

\* C30: every trade request that asked for its quote is eventually answered, and when the
\* provider did not answer the quote call the answer is the quote-unavailable failure.
C30_UnansweredQuoteEndsRequest ==
    \A r \in Reqs :
        (req[r].pc = "getQuote")
           ~> (/\ req[r].pc = "done"
               /\ req[r].at = "fetchPending" => req[r].resp = "Quote unavailable for symbol.")

====
